---- MODULE Spec2Model ----
(***************************************************************************)
(* Symbiodynamic Cyber-Immune System (src/scis_demo.py).                   *)
(*                                                                         *)
(* State: the three Mutable Generative Structures (rule set R, plasticity  *)
(* configuration rho, relationship_time), the DeceptionDirector's attacker *)
(* profiles, the ThreatAnalyzer's threat database, the SwarmCoordinator's  *)
(* agent registry and shared knowledge log, and the wall clock.            *)
(*                                                                         *)
(* Decimal quantities (confidences, rule values, plasticities, threat      *)
(* levels, profile fields) are fixed-point integers in units of 1/One:     *)
(* 0.7 is 7000.  Products are taken exactly (all operands used are         *)
(* multiples that divide evenly).  Binary rounding of the last digit of a  *)
(* Python float is not represented.  The clock counts whole seconds and    *)
(* does not advance inside a handler.                                      *)
(***************************************************************************)
EXTENDS Integers, Sequences, FiniteSets, TLC

VARIABLES
    now,                \* time.time(), in seconds
    ticks,              \* number of clock advances so far (bounds the clock)
    R,                  \* agent name -> (rule name -> value)        self.R
    rho,                \* agent name -> (rule name -> plasticity)   self.ρ
    relationship_time,  \* agent name -> S.relationship_time
    evolve_calls,       \* agent name -> number of evolve_rules calls (history)
    attacker_profiles,  \* attacker_id -> profile   DeceptionDirector
    threat_database,    \* sequence of records      ThreatAnalyzer
    agents,             \* sequence of registered agent names   SwarmCoordinator.agents
    shared_knowledge,   \* sequence of events       SwarmCoordinator
    dispatched,         \* sequence of events passed to process_threat_event (history)
    direct_calls,       \* number of agent methods called outside the coordinator (history)
    cycles,             \* number of _trigger_evolution_cycle runs (history)
    last                \* the last call: [op, arg, ret]

vars == <<now, ticks, R, rho, relationship_time, evolve_calls, attacker_profiles,
          threat_database, agents, shared_knowledge, dispatched, direct_calls, cycles,
          last>>

----------------------------------------------------------------------------
(* Fixed-point arithmetic *)

One == 10000

Mul(a, b) == (a * b) \div One

Max(a, b) == IF a >= b THEN a ELSE b

Min(a, b) == IF a <= b THEN a ELSE b

\* dict.get(key, default)
Get(d, k, default) == IF k \in DOMAIN d THEN d[k] ELSE default

Has(d, k) == k \in DOMAIN d

Restrict(f, K) == [k \in K |-> f[k]]

Range(s) == {s[i] : i \in DOMAIN s}

RECURSIVE SumOver(_, _)
SumOver(f, S) ==
    IF S = {} THEN 0
    ELSE LET x == CHOOSE y \in S : TRUE IN f[x] + SumOver(f, S \ {x})

None == "None"

----------------------------------------------------------------------------
(* Bounds of the model *)

MaxWork == 4

MaxTicks == 1

MaxInteractions == 15

MaxRecords == 4

MaxJumps == 2

MaxEngage == 1

MaxCycles == 2

\* operations of a coordinator-only run (a dispatch that evolves counts twice)
MaxSwarmWork == 5

----------------------------------------------------------------------------
(* MutableGenerativeStructure *)

NetworkSentinel == "NetworkSentinel"

DeceptionDirector == "DeceptionDirector"

ThreatAnalyzer == "ThreatAnalyzer"

GenericMGS == "GenericMGS"

DefaultPlasticity == 5000

PlasticityThreshold == 1000

RuleFloor == 1000

PerturbLow == -1000

PerturbHigh == 2000

\* random.uniform(-0.1, 0.2): representative draws, both ends included
Perturbations == {PerturbLow, -500, 0, 1000, PerturbHigh}

initial_rules ==
    [a \in {NetworkSentinel, DeceptionDirector, ThreatAnalyzer} |->
        CASE a = NetworkSentinel ->
                [traffic_analysis |-> 7000, anomaly_detection |-> 8000,
                 protocol_validation |-> 9000]
          [] a = DeceptionDirector ->
                [honeypot_effectiveness |-> 6000, breadcrumb_convincingness |-> 7000,
                 emotional_manipulation |-> 5000]
          [] a = ThreatAnalyzer ->
                [correlation_strength |-> 8000, pattern_recognition |-> 7500,
                 threat_prediction |-> 6000]]

plasticity_config ==
    [a \in {NetworkSentinel, DeceptionDirector, ThreatAnalyzer} |->
        CASE a = NetworkSentinel ->
                [traffic_analysis |-> 8000, anomaly_detection |-> 9000,
                 protocol_validation |-> 3000]
          [] a = DeceptionDirector ->
                [r \in DOMAIN initial_rules[DeceptionDirector] |-> 9500]
          [] a = ThreatAnalyzer ->
                [correlation_strength |-> 7000, pattern_recognition |-> 9000,
                 threat_prediction |-> 8000]]

calculate_plasticity(plast, rule_name) == Get(plast, rule_name, DefaultPlasticity)

IsNumeric(v) == v \in Int

EvolveRuleAtThreshold(current_rule, plasticity, d) ==
    IF plasticity >= PlasticityThreshold
    THEN IF IsNumeric(current_rule)
         THEN Max(RuleFloor, current_rule + Mul(d, plasticity))
         ELSE current_rule
    ELSE current_rule

EvolveRuleNoFloor(current_rule, plasticity, d) ==
    IF plasticity > PlasticityThreshold
    THEN IF IsNumeric(current_rule)
         THEN current_rule + Mul(d, plasticity)
         ELSE current_rule
    ELSE current_rule

\* one iteration of the loop of evolve_rules; d is the value random.uniform returns
EvolveRule(current_rule, plasticity, d) ==
    IF plasticity > PlasticityThreshold
    THEN IF IsNumeric(current_rule)
         THEN Max(RuleFloor, current_rule + Mul(d, plasticity))
         ELSE current_rule
    ELSE current_rule

\* new_rules of evolve_rules; draw maps each rule name to its random draw
new_rules(rules, plast, draw) ==
    [rule_name \in DOMAIN rules |->
        EvolveRule(rules[rule_name], calculate_plasticity(plast, rule_name),
                   draw[rule_name])]

----------------------------------------------------------------------------
(* NetworkSentinelMGS *)

SuspiciousPorts == {4444, 1337, 31337}

MaxPacketSize == 1500

FloodRate == 1000

PortConfidence == 8000

SizeConfidence == 6000

FloodConfidence == 9000

\* packet_data.get('destination_port') is None when the key is absent
PortRule(packet_data) ==
    /\ Has(packet_data, "destination_port")
    /\ packet_data["destination_port"] \in SuspiciousPorts

SizeRule(packet_data) == Get(packet_data, "packet_size", 0) > MaxPacketSize

FloodRule(packet_data) ==
    /\ Get(packet_data, "protocol", None) = "UDP"
    /\ Get(packet_data, "rate", 0) > FloodRate

SizeLabelKeep(packet_data, label) ==
    IF SizeRule(packet_data) /\ label = "none" THEN "oversized_packet" ELSE label

\* the label after the second if-statement of execute_rules
SizeLabel(packet_data, label) ==
    IF SizeRule(packet_data) THEN "oversized_packet" ELSE label

SizeConfidenceOverwrite(confidence) == SizeConfidence

\* confidence = max(confidence, 0.6)
SizeConfidenceAfter(confidence) == Max(confidence, SizeConfidence)

\* NetworkSentinelMGS.execute_rules, the three if-statements in order
SentinelExecuteRules(packet_data, t) ==
    LET d1 == PortRule(packet_data)
        ty1 == IF d1 THEN "suspicious_port" ELSE "none"
        c1 == IF d1 THEN PortConfidence ELSE 0
        d2 == d1 \/ SizeRule(packet_data)
        ty2 == SizeLabel(packet_data, ty1)
        c2 == IF SizeRule(packet_data) THEN SizeConfidenceAfter(c1) ELSE c1
        d3 == d2 \/ FloodRule(packet_data)
        ty3 == IF FloodRule(packet_data) THEN "udp_flood" ELSE ty2
        c3 == IF FloodRule(packet_data) THEN Max(c2, FloodConfidence) ELSE c2
    IN [threat_detected |-> d3,
        threat_type |-> ty3,
        confidence |-> c3,
        action |-> IF d3 THEN "block" ELSE "allow",
        timestamp |-> t]

----------------------------------------------------------------------------
(* DeceptionDirectorMGS *)

\* the clock is read in ticks; int(time.time()) keeps the whole seconds
TicksPerSecond == 2

UnknownAttacker == -1

AttackerIdPerTick(t) == t

\* f"attacker_{int(time.time())}": the identifier is the whole second
AttackerIdAt(t) == t \div TicksPerSecond

NewProfile ==
    [technical_skill |-> 5000, patience |-> 5000, frustration |-> 0,
     interaction_count |-> 0]

SkillStep == 1000

FrustrationStep == 1000

PatienceStep == 500

FrustrationAfter == 3

FrustrateEarly(profile) ==
    IF profile.interaction_count >= FrustrationAfter
    THEN [profile EXCEPT !.frustration = Min(One, @ + FrustrationStep),
                         !.patience = Max(0, @ - PatienceStep)]
    ELSE profile

\* the frustration branch of _update_attacker_profile
Frustrate(profile) ==
    IF profile.interaction_count > FrustrationAfter
    THEN [profile EXCEPT !.frustration = Min(One, @ + FrustrationStep),
                         !.patience = Max(0, @ - PatienceStep)]
    ELSE profile

LearnUncapped(profile, interaction) ==
    IF Get(interaction, "sophisticated", FALSE)
    THEN [profile EXCEPT !.technical_skill = @ + SkillStep]
    ELSE profile

\* the technical_skill branch of _update_attacker_profile
Learn(profile, interaction) ==
    IF Get(interaction, "sophisticated", FALSE)
    THEN [profile EXCEPT !.technical_skill = Min(One, @ + SkillStep)]
    ELSE profile

\* the profile _update_attacker_profile returns (and stores)
UpdatedProfile(profiles, attacker_id, interaction) ==
    LET p0 == IF attacker_id \in DOMAIN profiles THEN profiles[attacker_id] ELSE NewProfile
        p1 == [p0 EXCEPT !.interaction_count = @ + 1]
    IN Frustrate(Learn(p1, interaction))

\* self.attacker_profiles after _update_attacker_profile
update_attacker_profile(profiles, attacker_id, interaction) ==
    [id \in DOMAIN profiles \cup {attacker_id} |->
        IF id = attacker_id THEN UpdatedProfile(profiles, attacker_id, interaction)
        ELSE profiles[id]]

FrustrationHigh == 7000

SkillHigh == 7000

FrustrationMid == 5000

generate_deception_plan_eager(profile) ==
    LET s1 == IF profile.frustration >= FrustrationHigh
              THEN <<"delay_responses", "provide_false_success">> ELSE <<>>
        s2 == IF profile.technical_skill > SkillHigh
              THEN <<"complex_honeypot", "technical_misdirection">>
              ELSE <<"simple_honeypot", "obvious_breadcrumbs">>
    IN [strategy |-> s1 \o s2,
        honeypot_type |-> IF profile.technical_skill > SkillHigh THEN "advanced" ELSE "basic",
        response_delay |-> 2 * profile.frustration,
        emotional_manipulation |->
            IF profile.frustration < FrustrationMid THEN "frustration" ELSE "confusion"]

generate_deception_plan(profile) ==
    LET s1 == IF profile.frustration > FrustrationHigh
              THEN <<"delay_responses", "provide_false_success">> ELSE <<>>
        s2 == IF profile.technical_skill > SkillHigh
              THEN <<"complex_honeypot", "technical_misdirection">>
              ELSE <<"simple_honeypot", "obvious_breadcrumbs">>
    IN [strategy |-> s1 \o s2,
        honeypot_type |-> IF profile.technical_skill > SkillHigh THEN "advanced" ELSE "basic",
        response_delay |-> 2 * profile.frustration,
        emotional_manipulation |->
            IF profile.frustration < FrustrationMid THEN "frustration" ELSE "confusion"]

----------------------------------------------------------------------------
(* ThreatAnalyzerMGS *)

DetectedScore == 6000

ConfidenceWeight == 3000

RecentWindow == 300 * TicksPerSecond

RecentCount == 2

RecentBonus == 2000

recent_threats_inclusive(db, t) == {i \in DOMAIN db : t - db[i].timestamp <= RecentWindow}

\* recent_threats of _calculate_threat_level
recent_threats(db, t) == {i \in DOMAIN db : t - db[i].timestamp < RecentWindow}

base_score_detection_only(db, threat_data, t) ==
    (IF Get(threat_data, "threat_detected", FALSE) THEN DetectedScore ELSE 0)
    + (IF Cardinality(recent_threats(db, t)) > RecentCount THEN RecentBonus ELSE 0)

\* base_score before the final min
base_score(db, threat_data, t) ==
    (IF Get(threat_data, "threat_detected", FALSE) THEN DetectedScore ELSE 0)
    + Mul(Get(threat_data, "confidence", 0), ConfidenceWeight)
    + (IF Cardinality(recent_threats(db, t)) > RecentCount THEN RecentBonus ELSE 0)

threat_level_unclamped(db, threat_data, t) == base_score(db, threat_data, t)

\* _calculate_threat_level
calculate_threat_level(db, threat_data, t) == Min(One, base_score(db, threat_data, t))

LevelCritical == 8000

LevelElevated == 5000

generate_recommendations_inclusive(threat_data, threat_level) ==
    (IF threat_level >= LevelCritical
     THEN <<"immediate_block", "alert_administrator", "enhance_monitoring">>
     ELSE IF threat_level >= LevelElevated
          THEN <<"close_monitoring", "update_firewall_rules">>
          ELSE <<>>)
    \o (IF Get(threat_data, "threat_type", None) = "udp_flood"
        THEN <<"rate_limiting">> ELSE <<>>)

generate_recommendations(threat_data, threat_level) ==
    (IF threat_level > LevelCritical
     THEN <<"immediate_block", "alert_administrator", "enhance_monitoring">>
     ELSE IF threat_level > LevelElevated
          THEN <<"close_monitoring", "update_firewall_rules">>
          ELSE <<>>)
    \o (IF Get(threat_data, "threat_type", None) = "udp_flood"
        THEN <<"rate_limiting">> ELSE <<>>)

PatternLevel == 7000

\* the record execute_rules appends to threat_database
ThreatRecord(db, threat_data, t) ==
    [timestamp |-> t, threat_data |-> threat_data,
     threat_level |-> calculate_threat_level(db, threat_data, t)]

\* the value ThreatAnalyzerMGS.execute_rules returns
AnalyzerResult(db, rules, threat_data, t) ==
    LET level == calculate_threat_level(db, threat_data, t)
        db2 == Append(db, ThreatRecord(db, threat_data, t))
    IN [threat_level |-> level,
        recommendations |-> generate_recommendations(threat_data, level),
        confidence |-> rules["threat_prediction"],
        patterns_identified |->
            Cardinality({i \in DOMAIN db2 : db2[i].threat_level > PatternLevel})]

----------------------------------------------------------------------------
(* Inputs *)

EveryAgent == DOMAIN R

Registered == Range(agents)

\* draws of random.uniform for one evolve_rules call, one per rule
AllDraws(rules) == [DOMAIN rules -> Perturbations]

\* the draws explored for the three concrete agents: one extreme of the
\* interval for the whole call
ExtremeDraws(rules) == {[r \in DOMAIN rules |-> p] : p \in {PerturbLow, PerturbHigh}}

\* traffic_types of simulate_network_traffic
traffic_types ==
    {[protocol |-> "TCP", destination_port |-> 80, packet_size |-> 800, rate |-> 10],
     [protocol |-> "TCP", destination_port |-> 443, packet_size |-> 1200, rate |-> 15],
     [protocol |-> "UDP", destination_port |-> 53, packet_size |-> 512, rate |-> 5],
     [protocol |-> "TCP", destination_port |-> 4444, packet_size |-> 2000, rate |-> 100],
     [protocol |-> "UDP", destination_port |-> 123, packet_size |-> 100, rate |-> 2000],
     [protocol |-> "TCP", destination_port |-> 22, packet_size |-> 600, rate |-> 50]}

PacketKeys == {"protocol", "destination_port", "packet_size", "rate"}

FullPackets ==
    [protocol : {"TCP", "UDP"},
     destination_port : {80, 4444, 1337, 31337},
     packet_size : {1500, 1501},
     rate : {1000, 1001}]

\* packets with any subset of the four keys present
Packets == {Restrict(f, K) : f \in FullPackets, K \in SUBSET PacketKeys} \cup traffic_types

\* threat contexts handed to the coordinator and to the analyzer
EventContexts ==
    {[threat_detected |-> TRUE, threat_type |-> "suspicious_port"],
     [threat_detected |-> TRUE, threat_type |-> "oversized_packet", confidence |-> 6500],
     [threat_detected |-> TRUE, threat_type |-> "suspicious_port", confidence |-> 7000],
     [threat_detected |-> TRUE, threat_type |-> "suspicious_port", confidence |-> 7500],
     [threat_detected |-> TRUE, threat_type |-> "udp_flood", confidence |-> 9000]}

\* threat_event of run_demo
Events(t) ==
    {[detected_by |-> NetworkSentinel, threat_context |-> c, timestamp |-> t,
      simulation_time |-> t + 1] : c \in EventContexts}

HighSeverity == 7000

Confidence(threat_context) == Get(threat_context, "confidence", 0)

evolution_due_at_threshold(threat_context) == Confidence(threat_context) >= HighSeverity

\* the test that guards _trigger_evolution_cycle in process_threat_event
evolution_due(threat_context) == Confidence(threat_context) > HighSeverity

insert_knowledge(knowledge, event_data) == <<event_data>> \o knowledge

\* self.shared_knowledge.append(event_data)
append_knowledge(knowledge, event_data) == Append(knowledge, event_data)

relationship_time_kept(tau) == tau

\* self.S.relationship_time += 1.0
relationship_time_after(tau) == tau + 1

----------------------------------------------------------------------------
(* Operations *)

\* the clock advances by d ticks between two calls
Tick(d) ==
    /\ now' = now + d
    /\ ticks' = ticks + 1
    /\ UNCHANGED <<R, rho, relationship_time, evolve_calls, attacker_profiles,
                   threat_database, agents, shared_knowledge, dispatched,
                   direct_calls, cycles, last>>

SentinelEvaluateRecording(packet_data) ==
    /\ NetworkSentinel \in DOMAIN R
    /\ last' = [op |-> "NetworkSentinel.execute_rules", arg |-> packet_data,
                ret |-> SentinelExecuteRules(packet_data, now)]
    /\ threat_database' = Append(threat_database,
                                 [timestamp |-> now, threat_data |-> packet_data,
                                  threat_level |-> 0])
    /\ UNCHANGED <<now, ticks, R, rho, relationship_time, evolve_calls,
                   attacker_profiles, agents, shared_knowledge,
                   dispatched, direct_calls, cycles>>

\* NetworkSentinelMGS.execute_rules(packet_data)
SentinelEvaluate(packet_data) ==
    /\ NetworkSentinel \in DOMAIN R
    /\ last' = [op |-> "NetworkSentinel.execute_rules", arg |-> packet_data,
                ret |-> SentinelExecuteRules(packet_data, now)]
    /\ UNCHANGED <<now, ticks, R, rho, relationship_time, evolve_calls,
                   attacker_profiles, threat_database, agents, shared_knowledge,
                   dispatched, direct_calls, cycles>>

\* DeceptionDirectorMGS.execute_rules(attacker_interaction)
DeceptionEvaluate(attacker_interaction) ==
    LET attacker_id == Get(attacker_interaction, "attacker_id", UnknownAttacker)
        profile == UpdatedProfile(attacker_profiles, attacker_id, attacker_interaction)
    IN /\ DeceptionDirector \in DOMAIN R
       /\ profile.interaction_count <= MaxInteractions
       /\ attacker_profiles' =
              update_attacker_profile(attacker_profiles, attacker_id, attacker_interaction)
       /\ last' = [op |-> "DeceptionDirector.execute_rules", arg |-> attacker_interaction,
                   ret |-> generate_deception_plan(profile)]
       /\ direct_calls' = direct_calls + 1
       /\ UNCHANGED <<now, ticks, R, rho, relationship_time, evolve_calls,
                      threat_database, agents, shared_knowledge, dispatched, cycles>>

\* ThreatAnalyzerMGS.execute_rules(threat_data)
AnalyzerEvaluate(threat_data) ==
    /\ ThreatAnalyzer \in DOMAIN R
    /\ threat_database' = Append(threat_database,
                                 ThreatRecord(threat_database, threat_data, now))
    /\ last' = [op |-> "ThreatAnalyzer.execute_rules", arg |-> threat_data,
                ret |-> AnalyzerResult(threat_database, R[ThreatAnalyzer], threat_data, now)]
    /\ direct_calls' = direct_calls + 1
    /\ UNCHANGED <<now, ticks, R, rho, relationship_time, evolve_calls,
                   attacker_profiles, agents, shared_knowledge, dispatched, cycles>>

EvolveAgentsTwice(A, draws) ==
    /\ R' = [a \in DOMAIN R |->
                IF a \in A
                THEN new_rules(new_rules(R[a], rho[a], draws[a]), rho[a], draws[a])
                ELSE R[a]]
    /\ relationship_time' =
           [a \in DOMAIN R |->
                IF a \in A
                THEN relationship_time_after(relationship_time_after(relationship_time[a]))
                ELSE relationship_time[a]]
    /\ evolve_calls' =
           [a \in DOMAIN R |-> IF a \in A THEN evolve_calls[a] + 2 ELSE evolve_calls[a]]

\* the effect of evolve_rules on every agent of the set A; draws[a] are a's draws
EvolveAgents(A, draws) ==
    /\ R' = [a \in DOMAIN R |->
                IF a \in A THEN new_rules(R[a], rho[a], draws[a]) ELSE R[a]]
    /\ relationship_time' =
           [a \in DOMAIN R |->
                IF a \in A THEN relationship_time_after(relationship_time[a])
                ELSE relationship_time[a]]
    /\ evolve_calls' =
           [a \in DOMAIN R |-> IF a \in A THEN evolve_calls[a] + 1 ELSE evolve_calls[a]]

\* MutableGenerativeStructure.evolve_rules(interaction_context) on agent a
EvolveRules(a, draw) ==
    /\ a \in DOMAIN R
    /\ EvolveAgents({a}, [b \in {a} |-> draw])
    /\ last' = [op |-> "evolve_rules", arg |-> [agent |-> a, draws |-> draw],
                ret |-> new_rules(R[a], rho[a], draw)]
    /\ direct_calls' = direct_calls + 1
    /\ UNCHANGED <<now, ticks, rho, attacker_profiles, threat_database, agents,
                   shared_knowledge, dispatched, cycles>>

evolution_context_before_append(reason, knowledge, t) ==
    [reason |-> reason, timestamp |-> t, shared_knowledge_count |-> Len(knowledge) - 1]

\* evolution_context of _trigger_evolution_cycle
evolution_context(reason, knowledge, t) ==
    [reason |-> reason, timestamp |-> t, shared_knowledge_count |-> Len(knowledge)]

TriggerEvolutionCycleFirstOnly(reason, draws) ==
    /\ EvolveAgents({agents[i] : i \in DOMAIN agents \cap {1}}, draws)
    /\ last' = [op |-> "_trigger_evolution_cycle", arg |-> reason,
                ret |-> [context |-> evolution_context(reason, shared_knowledge, now),
                         evolved |-> agents]]
    /\ cycles' = cycles + 1
    /\ UNCHANGED <<now, ticks, rho, attacker_profiles, threat_database, agents,
                   shared_knowledge, dispatched, direct_calls>>

\* SwarmCoordinator._trigger_evolution_cycle(reason)
TriggerEvolutionCycle(reason, draws) ==
    /\ EvolveAgents(Registered, draws)
    /\ last' = [op |-> "_trigger_evolution_cycle", arg |-> reason,
                ret |-> [context |-> evolution_context(reason, shared_knowledge, now),
                         evolved |-> agents]]
    /\ cycles' = cycles + 1
    /\ UNCHANGED <<now, ticks, rho, attacker_profiles, threat_database, agents,
                   shared_knowledge, dispatched, direct_calls>>

\* the interaction process_threat_event hands to the DeceptionDirector
synthesized_interaction(event_data, t) ==
    [attacker_id |-> AttackerIdAt(t),
     threat_type |-> Get(event_data.threat_context, "threat_type", None),
     sophisticated |-> Confidence(event_data.threat_context) > HighSeverity]

\* SwarmCoordinator.process_threat_event(event_data)
ProcessThreatEvent(event_data, draws) ==
    LET ctx == event_data.threat_context
        knowledge == append_knowledge(shared_knowledge, event_data)
        interaction == synthesized_interaction(event_data, now)
        deceive == DeceptionDirector \in Registered
        analyze == ThreatAnalyzer \in Registered
        evolve == evolution_due(ctx)
        profile == UpdatedProfile(attacker_profiles, interaction.attacker_id, interaction)
    IN /\ shared_knowledge' = knowledge
       /\ dispatched' = Append(dispatched, event_data)
       /\ attacker_profiles' =
              IF deceive
              THEN update_attacker_profile(attacker_profiles, interaction.attacker_id,
                                           interaction)
              ELSE attacker_profiles
       /\ threat_database' =
              IF analyze
              THEN Append(threat_database, ThreatRecord(threat_database, ctx, now))
              ELSE threat_database
       /\ IF evolve
          THEN EvolveAgents(Registered, draws) /\ cycles' = cycles + 1
          ELSE UNCHANGED <<R, relationship_time, evolve_calls, cycles>>
       /\ last' = [op |-> "process_threat_event", arg |-> event_data,
                   ret |-> [deception_response |->
                                IF deceive THEN <<generate_deception_plan(profile)>>
                                ELSE <<>>,
                            analysis |->
                                IF analyze
                                THEN <<AnalyzerResult(threat_database, R[ThreatAnalyzer],
                                                      ctx, now)>>
                                ELSE <<>>,
                            evolution |->
                                IF evolve
                                THEN <<evolution_context("high_severity_threat",
                                                         knowledge, now)>>
                                ELSE <<>>]]
       /\ UNCHANGED <<now, ticks, rho, agents, direct_calls>>

----------------------------------------------------------------------------
(* The system SCISOrchestrator builds: three agents, all registered *)

Init ==
    /\ now = 0
    /\ ticks = 0
    /\ R = initial_rules
    /\ rho = plasticity_config
    /\ relationship_time = [a \in DOMAIN initial_rules |-> 0]
    /\ evolve_calls = [a \in DOMAIN initial_rules |-> 0]
    /\ attacker_profiles = <<>>
    /\ threat_database = <<>>
    /\ agents = <<NetworkSentinel, DeceptionDirector, ThreatAnalyzer>>
    /\ shared_knowledge = <<>>
    /\ dispatched = <<>>
    /\ direct_calls = 0
    /\ cycles = 0
    /\ last = [op |-> "__init__", arg |-> <<>>, ret |-> <<>>]

\* draws of one evolution cycle for every registered agent: one extreme of the
\* interval for the whole cycle
RegisteredDraws ==
    {[a \in Registered |-> [r \in DOMAIN R[a] |-> p]] : p \in {PerturbLow, PerturbHigh}}

TotalInteractions ==
    SumOver([id \in DOMAIN attacker_profiles |-> attacker_profiles[id].interaction_count],
            DOMAIN attacker_profiles)

\* packets, interactions and threat data of the direct calls
SomePackets ==
    {[protocol |-> "TCP", destination_port |-> 80, packet_size |-> 800, rate |-> 10],
     [protocol |-> "TCP", destination_port |-> 4444, packet_size |-> 2000, rate |-> 100],
     [protocol |-> "UDP", destination_port |-> 123, packet_size |-> 100, rate |-> 2000]}

SomeInteractions ==
    {[sophisticated |-> FALSE],
     [attacker_id |-> AttackerIdAt(0), threat_type |-> "udp_flood", sophisticated |-> TRUE]}

SomeThreatData ==
    {[threat_detected |-> FALSE, threat_type |-> "none", confidence |-> 0],
     [threat_detected |-> TRUE, threat_type |-> "udp_flood", confidence |-> 9000]}

\* operations performed so far; a dispatch that evolves counts twice
Work == ticks + direct_calls + Len(dispatched) + cycles

CanWork(n) == Work + n <= MaxWork

DirectSentinel == \E p \in SomePackets : SentinelEvaluate(p)

DirectDeception ==
    /\ CanWork(1)
    /\ \E i \in SomeInteractions : DeceptionEvaluate(i)

DirectAnalyzer ==
    /\ CanWork(1)
    /\ \E c \in SomeThreatData : AnalyzerEvaluate(c)

DirectEvolve ==
    /\ CanWork(1)
    /\ \E a \in DOMAIN R : \E draw \in ExtremeDraws(R[a]) : EvolveRules(a, draw)

Dispatch ==
    \E e \in Events(now) :
        /\ CanWork(IF evolution_due(e.threat_context) THEN 2 ELSE 1)
        /\ \E draws \in RegisteredDraws : ProcessThreatEvent(e, draws)

PeriodicEvolution ==
    /\ CanWork(1)
    /\ \E draws \in RegisteredDraws : TriggerEvolutionCycle("periodic_evolution", draws)

Clock ==
    /\ CanWork(1)
    /\ Tick(1)

Next ==
    \/ Clock
    \/ DirectSentinel
    \/ DirectDeception
    \/ DirectAnalyzer
    \/ DirectEvolve
    \/ Dispatch
    \/ PeriodicEvolution

Spec == Init /\ [][Next]_vars

----------------------------------------------------------------------------
(* One MutableGenerativeStructure with arbitrary rules and plasticities *)

GenericRules == {"alpha", "beta"}

GenericValues == {1000, 1500, 6000}

GenericPlasticities == {500, 1000, 1500, 9500}

InitMGS ==
    /\ now = 0
    /\ ticks = 0
    /\ \E rules \in [GenericRules -> GenericValues] :
          R = [a \in {GenericMGS} |-> rules]
    /\ \E K \in SUBSET GenericRules : \E plast \in [K -> GenericPlasticities] :
          rho = [a \in {GenericMGS} |-> plast]
    /\ relationship_time = [a \in {GenericMGS} |-> 0]
    /\ evolve_calls = [a \in {GenericMGS} |-> 0]
    /\ attacker_profiles = <<>>
    /\ threat_database = <<>>
    /\ agents = <<>>
    /\ shared_knowledge = <<>>
    /\ dispatched = <<>>
    /\ direct_calls = 0
    /\ cycles = 0
    /\ last = [op |-> "__init__", arg |-> <<>>, ret |-> <<>>]

Evolve ==
    /\ relationship_time[GenericMGS] < MaxCycles
    /\ \E draw \in AllDraws(R[GenericMGS]) : EvolveRules(GenericMGS, draw)

NextMGS == Evolve

SpecMGS == InitMGS /\ [][NextMGS]_vars

----------------------------------------------------------------------------
(* The NetworkSentinel alone, on packets with any field present or absent *)

Analyze == \E p \in Packets : SentinelEvaluate(p)

Pass ==
    /\ ticks < MaxTicks
    /\ Tick(1)

NextSentinel ==
    \/ Pass
    \/ Analyze

SpecSentinel == Init /\ [][NextSentinel]_vars

----------------------------------------------------------------------------
(* The DeceptionDirector alone and behind the coordinator *)

Interactions ==
    {Restrict(f, K) :
        f \in [attacker_id : {AttackerIdAt(0)}, sophisticated : {TRUE}],
        K \in SUBSET {"attacker_id", "sophisticated"}}

InteractionCount(attacker_id) ==
    Get(attacker_profiles, attacker_id, NewProfile).interaction_count

Deceive ==
    \E i \in Interactions :
        /\ InteractionCount(Get(i, "attacker_id", UnknownAttacker)) < MaxInteractions
        /\ DeceptionEvaluate(i)

\* events without evolution, reaching the DeceptionDirector through the coordinator
QuietEvents(t) == {e \in Events(t) : ~evolution_due(e.threat_context)}

\* no draw is consumed: these events never start an evolution cycle
Engage ==
    /\ Len(shared_knowledge) < MaxEngage
    /\ InteractionCount(AttackerIdAt(now)) < MaxInteractions
    /\ \E e \in QuietEvents(now) : ProcessThreatEvent(e, CHOOSE d \in RegisteredDraws : TRUE)

NextDeception ==
    \/ Deceive
    \/ Engage

SpecDeception == Init /\ [][NextDeception]_vars

----------------------------------------------------------------------------
(* The ThreatAnalyzer alone, with a clock that can leave the recency window *)

ThreatData ==
    {<<>>,
     [threat_detected |-> FALSE, confidence |-> One],
     [threat_detected |-> TRUE, threat_type |-> "suspicious_port", confidence |-> 0],
     [threat_detected |-> TRUE, threat_type |-> "udp_flood", confidence |-> 9000],
     [threat_detected |-> TRUE, confidence |-> One]}

TickSteps == {1, RecentWindow - 1}

Jump ==
    /\ ticks < MaxJumps
    /\ \E d \in TickSteps : Tick(d)

Assess ==
    /\ Len(threat_database) < MaxRecords
    /\ \E c \in ThreatData : AnalyzerEvaluate(c)

NextAnalyzer ==
    \/ Jump
    \/ Assess

SpecAnalyzer == Init /\ [][NextAnalyzer]_vars

----------------------------------------------------------------------------
(* A SwarmCoordinator built over any list of the three agents, driven only
   through process_threat_event and _trigger_evolution_cycle *)

AgentNames == {NetworkSentinel, DeceptionDirector, ThreatAnalyzer}

\* the lists of distinct agents SwarmCoordinator.__init__ may be handed
Registrations ==
    {s \in UNION {[1..n -> AgentNames] : n \in 0..3} :
        \A i, j \in DOMAIN s : i # j => s[i] # s[j]}

InitSwarm ==
    /\ now = 0
    /\ ticks = 0
    /\ R = initial_rules
    /\ rho = plasticity_config
    /\ relationship_time = [a \in DOMAIN initial_rules |-> 0]
    /\ evolve_calls = [a \in DOMAIN initial_rules |-> 0]
    /\ attacker_profiles = <<>>
    /\ threat_database = <<>>
    /\ agents \in Registrations
    /\ shared_knowledge = <<>>
    /\ dispatched = <<>>
    /\ direct_calls = 0
    /\ cycles = 0
    /\ last = [op |-> "__init__", arg |-> <<>>, ret |-> <<>>]

CanSwarmWork(n) == Work + n <= MaxSwarmWork

SwarmDispatch ==
    \E e \in Events(now) :
        /\ CanSwarmWork(IF evolution_due(e.threat_context) THEN 2 ELSE 1)
        /\ \E draws \in RegisteredDraws : ProcessThreatEvent(e, draws)

SwarmEvolution ==
    /\ CanSwarmWork(1)
    /\ \E draws \in RegisteredDraws : TriggerEvolutionCycle("periodic_evolution", draws)

SwarmClock ==
    /\ CanSwarmWork(1)
    /\ Tick(1)

NextSwarm ==
    \/ SwarmClock
    \/ SwarmDispatch
    \/ SwarmEvolution

SpecSwarm == InitSwarm /\ [][NextSwarm]_vars

----------------------------------------------------------------------------
(* Properties of the coordinated system (Spec) *)

DispatchStep == Len(dispatched') = Len(dispatched) + 1

EvolvingOps == {"evolve_rules", "_trigger_evolution_cycle", "process_threat_event"}

\* C1: a dispatch whose threat_context carries a confidence strictly above 0.7
\* runs exactly one evolution cycle (every registered agent's relationship_time
\* and evolve count grow by 1); a dispatch with confidence 0.7, lower, or
\* absent runs none (they grow by 0).
C1_DispatchEvolvesOnce ==
    [][DispatchStep =>
          LET ctx == dispatched'[Len(dispatched')].threat_context
              high == Has(ctx, "confidence") /\ ctx.confidence > 7000
              step == IF high THEN 1 ELSE 0
          IN \A a \in Registered :
                /\ relationship_time'[a] = relationship_time[a] + step
                /\ evolve_calls'[a] = evolve_calls[a] + step]_vars

C1_Witness ==
    /\ last.op = "process_threat_event"
    /\ Confidence(last.arg.threat_context) = 7500
    /\ last.ret.evolution # <<>>
    /\ \A a \in Registered : relationship_time[a] = 1
    /\ \E i \in DOMAIN shared_knowledge :
          Confidence(shared_knowledge[i].threat_context) = 7000

\* C2: relationship_time of an agent never decreases, changes only in a step
\* that runs evolve_rules on that agent, and always equals the number of
\* evolve_rules calls made on that agent (initial value 0).
C2_RelationshipTimeCountsEvolves ==
    [][\A a \in DOMAIN R :
          /\ relationship_time'[a] >= relationship_time[a]
          /\ relationship_time'[a] = evolve_calls'[a]
          /\ relationship_time'[a] # relationship_time[a] =>
                /\ evolve_calls'[a] = evolve_calls[a] + 1
                /\ last'.op \in EvolvingOps
          /\ evolve_calls'[a] # evolve_calls[a] =>
                relationship_time'[a] = relationship_time[a] + 1]_vars

C2_Witness ==
    /\ relationship_time[NetworkSentinel] = 1
    /\ relationship_time[ThreatAnalyzer] = 0
    /\ evolve_calls[NetworkSentinel] = 1
    /\ Len(shared_knowledge) > 0
    /\ last.op = "NetworkSentinel.execute_rules"

\* C3: the shared knowledge log is append-only: a dispatch appends exactly its
\* event at the end, every other step leaves the log as it is, and the log is
\* always the sequence of dispatched events in dispatch order.
C3_LogAppendOnly ==
    [][/\ shared_knowledge' = dispatched'
       /\ IF DispatchStep
          THEN /\ last'.op = "process_threat_event"
               /\ shared_knowledge' = Append(shared_knowledge, last'.arg)
          ELSE shared_knowledge' = shared_knowledge]_vars

C3_Witness ==
    /\ Len(shared_knowledge) = 2
    /\ Confidence(shared_knowledge[1].threat_context) = 7500
    /\ Confidence(shared_knowledge[2].threat_context) = 6500
    /\ last.op = "NetworkSentinel.execute_rules"

----------------------------------------------------------------------------
(* Properties of evolve_rules on arbitrary rule sets (SpecMGS) *)

ConfiguredPlasticity(a, r) == IF r \in DOMAIN rho[a] THEN rho[a][r] ELSE 5000

\* C4: every evolve_rules call leaves the value of every rule whose plasticity
\* (configured, or 0.5 when not configured) is at most 0.1 exactly as it was.
C4_RigidRulesUnchanged ==
    [][\A a \in DOMAIN R : \A r \in DOMAIN R[a] :
          ConfiguredPlasticity(a, r) <= 1000 => R'[a][r] = R[a][r]]_vars

C4_Witness ==
    /\ last.op = "evolve_rules"
    /\ relationship_time[GenericMGS] = 2
    /\ DOMAIN rho[GenericMGS] = {"alpha", "beta"}
    /\ rho[GenericMGS]["alpha"] = 1000
    /\ rho[GenericMGS]["beta"] = 9500
    /\ last.arg.draws["alpha"] = 2000
    /\ R[GenericMGS]["alpha"] = 1500
    /\ R[GenericMGS]["beta"] = 6000 + 1900 + 1900

\* C5: after any number of evolution cycles with draws anywhere in [-0.1, 0.2],
\* every numeric rule whose plasticity exceeds 0.1 has a value of at least 0.1.
C5_PlasticRulesFloored ==
    \A a \in DOMAIN R : \A r \in DOMAIN R[a] :
        ConfiguredPlasticity(a, r) > 1000 => R[a][r] >= 1000

C5_Witness ==
    /\ last.op = "evolve_rules"
    /\ relationship_time[GenericMGS] = 1
    /\ "alpha" \notin DOMAIN rho[GenericMGS]
    /\ last.arg.draws["alpha"] = -1000
    /\ R[GenericMGS]["alpha"] = 1000
    /\ R[GenericMGS]["beta"] = 6000

----------------------------------------------------------------------------
(* Properties of the NetworkSentinel (SpecSentinel) *)

SentinelCalled == last.op = "NetworkSentinel.execute_rules"

PortMatched(p) == "destination_port" \in DOMAIN p /\ p["destination_port"] \in {4444, 1337, 31337}

SizeMatched(p) == "packet_size" \in DOMAIN p /\ p["packet_size"] > 1500

FloodMatched(p) ==
    /\ "protocol" \in DOMAIN p /\ p["protocol"] = "UDP"
    /\ "rate" \in DOMAIN p /\ p["rate"] > 1000

MatchedConfidences(p) ==
    (IF PortMatched(p) THEN {8000} ELSE {})
    \cup (IF SizeMatched(p) THEN {6000} ELSE {})
    \cup (IF FloodMatched(p) THEN {9000} ELSE {})

SuspiciousSample ==
    [protocol |-> "TCP", destination_port |-> 4444, packet_size |-> 2000, rate |-> 100]

FloodSample ==
    [protocol |-> "UDP", destination_port |-> 123, packet_size |-> 100, rate |-> 2000]

\* C6: execute_rules returns the largest confidence among the matched rules
\* (port 0.8, size 0.6, flood 0.9) and 0.0 when none matches; threat_detected
\* holds exactly when a rule matches, action is 'block' exactly then, and
\* threat_type is 'none' exactly when no rule matches; the TCP/4444/2000/100
\* sample gives 0.8 and the UDP/123/100/2000 sample gives 0.9.
C6_ConfidenceIsMaxOfMatched ==
    SentinelCalled =>
        LET p == last.arg
            r == last.ret
            M == MatchedConfidences(p)
        IN /\ r.confidence \in M \cup {0}
           /\ \A c \in M : r.confidence >= c
           /\ (M = {}) => r.confidence = 0
           /\ r.threat_detected = (M # {})
           /\ (r.action = "block") = r.threat_detected
           /\ r.action \in {"block", "allow"}
           /\ (r.threat_type = "none") = (M = {})
           /\ (DOMAIN p = DOMAIN SuspiciousSample /\ p = SuspiciousSample) => r.confidence = 8000
           /\ (DOMAIN p = DOMAIN FloodSample /\ p = FloodSample) => r.confidence = 9000

C6_Witness ==
    /\ SentinelCalled
    /\ DOMAIN last.arg = DOMAIN SuspiciousSample
    /\ last.arg = SuspiciousSample
    /\ last.ret.threat_detected
    /\ last.ret.confidence = 8000

\* C7 as stated: a sample that matches the suspicious-port rule and the
\* oversized-packet rule, and not the UDP-flood rule, keeps the label
\* 'suspicious_port'.
C7_PortLabelKept ==
    (SentinelCalled /\ PortMatched(last.arg) /\ SizeMatched(last.arg)
        /\ ~FloodMatched(last.arg))
    => last.ret.threat_type = "suspicious_port"

\* C7 amended: a sample with packet_size > 1500 that does not match the
\* UDP-flood rule is labelled 'oversized_packet' whether or not the
\* suspicious-port rule matched before (the last matching rule sets the
\* label); when the port rule matched too the confidence stays 0.8.
C7_LastMatchLabels ==
    (SentinelCalled /\ SizeMatched(last.arg) /\ ~FloodMatched(last.arg))
    => /\ last.ret.threat_type = "oversized_packet"
       /\ PortMatched(last.arg) => last.ret.confidence = 8000

C7_Witness ==
    /\ SentinelCalled
    /\ PortMatched(last.arg)
    /\ SizeMatched(last.arg)
    /\ ~FloodMatched(last.arg)
    /\ last.ret.threat_type = "oversized_packet"
    /\ last.ret.confidence = 8000

----------------------------------------------------------------------------
(* Properties of the ThreatAnalyzer (SpecAnalyzer) *)

AnalyzerCalled == last.op = "ThreatAnalyzer.execute_rules"

InUnit(x) == 0 <= x /\ x <= 10000

ConfidenceInUnit(threat_data) ==
    "confidence" \in DOMAIN threat_data => InUnit(threat_data["confidence"])

\* C8: for any history and any threat data whose confidence lies in [0,1]
\* (detected or not), the threat_level execute_rules computes and records lies
\* in [0,1]; so every record of the threat database has a level in [0,1].
C8_ThreatLevelInUnitInterval ==
    /\ \A i \in DOMAIN threat_database :
          ConfidenceInUnit(threat_database[i].threat_data)
             => InUnit(threat_database[i].threat_level)
    /\ (AnalyzerCalled /\ ConfidenceInUnit(last.arg)) =>
          /\ InUnit(last.ret.threat_level)
          /\ threat_database # <<>>
          /\ threat_database[Len(threat_database)].threat_level = last.ret.threat_level

C8_Witness ==
    /\ AnalyzerCalled
    /\ Len(threat_database) = 4
    /\ \A i \in DOMAIN threat_database : now - threat_database[i].timestamp < 300
    /\ "confidence" \in DOMAIN last.arg
    /\ last.arg["confidence"] = 10000
    /\ last.arg["threat_detected"]
    /\ last.ret.threat_level = 10000

----------------------------------------------------------------------------
(* Properties of the DeceptionDirector (SpecDeception) *)

DeceptionCalled == last.op = "DeceptionDirector.execute_rules"

ClosedFrustration(n) == IF n <= 3 THEN 0 ELSE Min(10000, 1000 * (n - 3))

ClosedPatience(n) == IF n <= 3 THEN 5000 ELSE Max(0, 5000 - 500 * (n - 3))

CalledAttacker ==
    IF last'.op = "process_threat_event" THEN now \div TicksPerSecond
    ELSE IF "attacker_id" \in DOMAIN last'.arg THEN last'.arg["attacker_id"] ELSE -1

\* C10: every profile has technical_skill, patience and frustration in [0,1]
\* and interaction_count >= 1; an evaluate call for attacker_id X creates X's
\* profile if absent, adds exactly 1 to X's interaction_count, never lowers
\* technical_skill or frustration, never raises patience, leaves every other
\* profile unchanged, and no step removes a profile.
C10_ProfilesBoundedMonotone ==
    [][/\ \A id \in DOMAIN attacker_profiles' :
             LET p == attacker_profiles'[id]
             IN /\ InUnit(p.technical_skill) /\ InUnit(p.patience) /\ InUnit(p.frustration)
                /\ p.interaction_count >= 1
       /\ DOMAIN attacker_profiles \subseteq DOMAIN attacker_profiles'
       /\ (last'.op \in {"DeceptionDirector.execute_rules", "process_threat_event"}
             /\ (direct_calls' # direct_calls \/ dispatched' # dispatched)) =>
             LET X == CalledAttacker
                 old == IF X \in DOMAIN attacker_profiles THEN attacker_profiles[X]
                        ELSE [technical_skill |-> 5000, patience |-> 5000,
                              frustration |-> 0, interaction_count |-> 0]
             IN /\ DOMAIN attacker_profiles' = DOMAIN attacker_profiles \cup {X}
                /\ attacker_profiles'[X].interaction_count = old.interaction_count + 1
                /\ attacker_profiles'[X].technical_skill >= old.technical_skill
                /\ attacker_profiles'[X].frustration >= old.frustration
                /\ attacker_profiles'[X].patience <= old.patience
                /\ \A id \in DOMAIN attacker_profiles \ {X} :
                      attacker_profiles'[id] = attacker_profiles[id]]_vars

C10_Witness ==
    /\ DeceptionCalled
    /\ DOMAIN attacker_profiles = {UnknownAttacker, AttackerIdAt(0)}
    /\ Len(shared_knowledge) = 1
    /\ attacker_profiles[AttackerIdAt(0)].technical_skill = 10000
    /\ attacker_profiles[AttackerIdAt(0)].interaction_count = 8
    /\ attacker_profiles[UnknownAttacker].interaction_count = 15
    /\ attacker_profiles[UnknownAttacker].frustration = 10000
    /\ attacker_profiles[UnknownAttacker].patience = 0

----------------------------------------------------------------------------
(* Properties of the coordinator over any registration (SpecSwarm) *)

AllRegistered == Range(agents) = {"NetworkSentinel", "DeceptionDirector", "ThreatAnalyzer"}

FloodContext == [threat_detected |-> TRUE, threat_type |-> "udp_flood", confidence |-> 9000]

\* C11: with the three agents registered, every dispatch of an event whose
\* threat_context is {threat_detected: true, threat_type: 'udp_flood',
\* confidence: 0.9} returns an analysis with 0.87 <= threat_level <= 1.0 whose
\* recommendations contain 'rate_limiting', and runs exactly one evolution
\* cycle, after any history of dispatches, evolution cycles and clock ticks.
C11_FloodScenario ==
    [][(/\ DispatchStep
        /\ AllRegistered
        /\ dispatched'[Len(dispatched')].threat_context = FloodContext)
       => /\ last'.op = "process_threat_event"
          /\ Len(last'.ret.analysis) = 1
          /\ last'.ret.analysis[1].threat_level >= 8700
          /\ last'.ret.analysis[1].threat_level <= 10000
          /\ \E i \in DOMAIN last'.ret.analysis[1].recommendations :
                 last'.ret.analysis[1].recommendations[i] = "rate_limiting"
          /\ cycles' = cycles + 1
          /\ Len(last'.ret.evolution) = 1
          /\ \A a \in Range(agents) : evolve_calls'[a] = evolve_calls[a] + 1]_vars

\* the scenario after three earlier dispatches in the recency window
C11_Witness ==
    /\ AllRegistered
    /\ last.op = "process_threat_event"
    /\ last.arg.threat_context = FloodContext
    /\ Len(threat_database) = 4
    /\ last.ret.analysis[1].threat_level = 10000
    /\ cycles = 1

----------------------------------------------------------------------------
(* Frame properties of execute_rules (Spec) *)

EvaluateOps ==
    {"NetworkSentinel.execute_rules", "DeceptionDirector.execute_rules",
     "ThreatAnalyzer.execute_rules"}

\* a step that is one direct execute_rules call
EvaluateStep ==
    /\ last'.op \in EvaluateOps
    /\ \/ direct_calls' = direct_calls + 1
       \/ last' # last

\* C12: a direct execute_rules call on any agent leaves every agent's rules and
\* relationship_time as they were; in any step, the rules or relationship_time
\* of an agent differ afterwards only if that step ran evolve_rules on that
\* agent; and NetworkSentinel.execute_rules leaves the whole state (rules,
\* relationship_time, profiles, threat history, shared log) unchanged.
C12_EvaluateKeepsRules ==
    [][/\ EvaluateStep => R' = R /\ relationship_time' = relationship_time
       /\ \A a \in DOMAIN R :
              (R'[a] # R[a] \/ relationship_time'[a] # relationship_time[a])
                  => evolve_calls'[a] = evolve_calls[a] + 1
       /\ (last'.op = "NetworkSentinel.execute_rules" /\ last' # last)
              => UNCHANGED <<R, rho, relationship_time, evolve_calls,
                             attacker_profiles, threat_database, agents,
                             shared_knowledge, dispatched>>]_vars

\* a detecting NetworkSentinel call made after the other agents built up
\* history and one agent evolved
C12_Witness ==
    /\ last.op = "NetworkSentinel.execute_rules"
    /\ last.ret.threat_detected
    /\ Len(threat_database) = 1
    /\ DOMAIN attacker_profiles # {}
    /\ R # initial_rules

----------------------------------------------------------------------------
(* Dispatch to a partly registered coordinator (SpecSwarm) *)

IsRegistered(a) == \E i \in DOMAIN agents : agents[i] = a

HighConfidence(ctx) == "confidence" \in DOMAIN ctx /\ ctx["confidence"] > 7000

\* C13: process_threat_event completes for every event under every
\* registration, also when the DeceptionDirector and/or the ThreatAnalyzer is
\* missing, and each time it runs: the event is appended to the shared log;
\* the DeceptionDirector is evaluated (one more
\* interaction, one plan) exactly when it is registered, and otherwise no
\* profile changes; the ThreatAnalyzer is evaluated (one more record, one
\* analysis) exactly when it is registered, and otherwise the threat history is
\* unchanged; and when confidence > 0.7 every registered agent evolves once
\* while no unregistered agent changes.
C13_MissingAgentSkipped ==
    [][/\ dispatched = <<>> =>
              \A e \in Events(now), d \in RegisteredDraws :
                  ENABLED ProcessThreatEvent(e, d)
       /\ DispatchStep =>
          LET e == dispatched'[Len(dispatched')]
              ret == last'.ret
          IN /\ last'.op = "process_threat_event"
             /\ shared_knowledge' = Append(shared_knowledge, e)
             /\ IF IsRegistered("DeceptionDirector")
                THEN /\ Len(ret.deception_response) = 1
                     /\ \E id \in DOMAIN attacker_profiles' :
                            /\ attacker_profiles'[id].interaction_count =
                                   (IF id \in DOMAIN attacker_profiles
                                    THEN attacker_profiles[id].interaction_count
                                    ELSE 0) + 1
                            /\ \A other \in DOMAIN attacker_profiles' \ {id} :
                                   /\ other \in DOMAIN attacker_profiles
                                   /\ attacker_profiles'[other] = attacker_profiles[other]
                ELSE /\ ret.deception_response = <<>>
                     /\ attacker_profiles' = attacker_profiles
             /\ IF IsRegistered("ThreatAnalyzer")
                THEN /\ Len(ret.analysis) = 1
                     /\ Len(threat_database') = Len(threat_database) + 1
                     /\ threat_database'[Len(threat_database')].threat_data
                            = e.threat_context
                ELSE /\ ret.analysis = <<>>
                     /\ threat_database' = threat_database
             /\ \A a \in DOMAIN R :
                    IF HighConfidence(e.threat_context) /\ IsRegistered(a)
                    THEN /\ evolve_calls'[a] = evolve_calls[a] + 1
                         /\ relationship_time'[a] = relationship_time[a] + 1
                    ELSE /\ evolve_calls'[a] = evolve_calls[a]
                         /\ relationship_time'[a] = relationship_time[a]
                         /\ R'[a] = R[a]]_vars

\* a high-severity dispatch to a coordinator without DeceptionDirector: the
\* event is logged and analysed, the two registered agents evolved
C13_Witness ==
    /\ agents = <<"ThreatAnalyzer", "NetworkSentinel">>
    /\ last.op = "process_threat_event"
    /\ HighConfidence(last.arg.threat_context)
    /\ Len(shared_knowledge) = 2
    /\ Len(threat_database) = 2
    /\ attacker_profiles = <<>>
    /\ evolve_calls["ThreatAnalyzer"] = 1
    /\ evolve_calls["NetworkSentinel"] = 1
    /\ evolve_calls["DeceptionDirector"] = 0
    /\ R["DeceptionDirector"] = initial_rules["DeceptionDirector"]

----------------------------------------------------------------------------
(* _trigger_evolution_cycle (SpecSwarm) *)

\* a step that is one call of _trigger_evolution_cycle from outside a dispatch
TriggerStep ==
    /\ cycles' = cycles + 1
    /\ Len(dispatched') = Len(dispatched)

\* C14: a call of _trigger_evolution_cycle runs evolve_rules exactly once on
\* every registered agent (and on no other), visiting them in registration
\* order, with a context whose shared_knowledge_count is the length of the
\* shared log at the call; it leaves the shared log, the attacker profiles,
\* the threat history, the registration and the plasticities unchanged.
C14_TriggerEvolvesRegisteredOnce ==
    [][TriggerStep =>
          /\ last'.op = "_trigger_evolution_cycle"
          /\ last'.ret.evolved = agents
          /\ last'.ret.context.shared_knowledge_count = Len(shared_knowledge)
          /\ \A a \in DOMAIN R :
                 IF IsRegistered(a)
                 THEN /\ evolve_calls'[a] = evolve_calls[a] + 1
                      /\ relationship_time'[a] = relationship_time[a] + 1
                 ELSE /\ evolve_calls'[a] = evolve_calls[a]
                      /\ relationship_time'[a] = relationship_time[a]
                      /\ R'[a] = R[a]
          /\ UNCHANGED <<shared_knowledge, attacker_profiles, threat_database,
                         agents, rho, dispatched>>]_vars

\* a periodic cycle over three agents registered in reverse order, after two
\* logged events
C14_Witness ==
    /\ agents = <<"ThreatAnalyzer", "DeceptionDirector", "NetworkSentinel">>
    /\ last.op = "_trigger_evolution_cycle"
    /\ last.ret.evolved = agents
    /\ last.ret.context.shared_knowledge_count = 2
    /\ Len(shared_knowledge) = 2
    /\ Len(threat_database) = 2
    /\ \A a \in DOMAIN R : evolve_calls[a] = 1 /\ R[a] # initial_rules[a]

----------------------------------------------------------------------------
(* Order of the steps of one dispatch (SpecSwarm) *)

\* C15: one process_threat_event call appends the event, evaluates the
\* DeceptionDirector and the ThreatAnalyzer and, when confidence > 0.7, runs
\* the evolution cycle, all before the next operation starts; the analysis
\* reports as 'confidence' the threat_prediction rule as it was before that
\* call's evolution cycle, and the evolution context's shared_knowledge_count
\* is the length of the log with the event already appended.
C15_DispatchOrder ==
    [][DispatchStep =>
          LET e == dispatched'[Len(dispatched')]
              ret == last'.ret
          IN /\ shared_knowledge' = Append(shared_knowledge, e)
             /\ Len(shared_knowledge') = Len(dispatched')
             /\ IsRegistered("ThreatAnalyzer") =>
                    /\ Len(ret.analysis) = 1
                    /\ ret.analysis[1].confidence = R["ThreatAnalyzer"]["threat_prediction"]
                    /\ Len(threat_database') = Len(threat_database) + 1
             /\ IF HighConfidence(e.threat_context)
                THEN /\ cycles' = cycles + 1
                     /\ Len(ret.evolution) = 1
                     /\ ret.evolution[1].shared_knowledge_count = Len(shared_knowledge) + 1
                     /\ ret.evolution[1].shared_knowledge_count = Len(shared_knowledge')
                ELSE /\ cycles' = cycles
                     /\ ret.evolution = <<>>]_vars

\* a second, high-severity dispatch whose analysis reports the rule value the
\* evolution cycle of the same dispatch then replaced
C15_Witness ==
    /\ AllRegistered
    /\ last.op = "process_threat_event"
    /\ HighConfidence(last.arg.threat_context)
    /\ Len(shared_knowledge) = 2
    /\ last.ret.evolution[1].shared_knowledge_count = 2
    /\ last.ret.analysis[1].confidence = 6000
    /\ R["ThreatAnalyzer"]["threat_prediction"] # 6000

----------------------------------------------------------------------------
(* The recency bonus of the ThreatAnalyzer (SpecAnalyzer) *)

\* a step that is one ThreatAnalyzer.execute_rules call
AssessStep == Len(threat_database') = Len(threat_database) + 1

\* the records already stored that are less than 300 seconds old
EarlierInWindow ==
    {i \in DOMAIN threat_database :
        now - threat_database[i].timestamp < 300 * TicksPerSecond}

\* the threat level of a context without any recency bonus
PlainLevel(threat_data) ==
    (IF "threat_detected" \in DOMAIN threat_data /\ threat_data["threat_detected"]
     THEN 6000 ELSE 0)
    + (IF "confidence" \in DOMAIN threat_data
       THEN (threat_data["confidence"] * 3000) \div 10000 ELSE 0)

WithBonus(threat_data) == Min(10000, PlainLevel(threat_data) + 2000)

\* C16: an execute_rules call of the ThreatAnalyzer adds the 0.2 recency bonus
\* exactly when more than two of the records stored before the call are less
\* than 300 seconds old (the record of the call itself is not counted): the
\* first three calls never get it, and the fourth gets it exactly when the
\* three earlier records are all inside the window.
C16_RecencyBonus ==
    [][AssessStep =>
          LET threat_data == last'.arg
              level == last'.ret.threat_level
          IN /\ last'.op = "ThreatAnalyzer.execute_rules"
             /\ threat_database'[Len(threat_database')].threat_level = level
             /\ level = IF Cardinality(EarlierInWindow) > 2
                        THEN WithBonus(threat_data)
                        ELSE Min(10000, PlainLevel(threat_data))
             /\ WithBonus(threat_data) # Min(10000, PlainLevel(threat_data))
             /\ Len(threat_database) < 3 => level = Min(10000, PlainLevel(threat_data))
             /\ Len(threat_database) = 3 =>
                    (level = WithBonus(threat_data)
                        <=> \A i \in 1..3 :
                               now - threat_database[i].timestamp
                                   < 300 * TicksPerSecond)]_vars

\* a fourth call half a second before the three earlier records leave the
\* window: 0.6 + 0.2
C16_Witness ==
    /\ last.op = "ThreatAnalyzer.execute_rules"
    /\ Len(threat_database) = 4
    /\ \A i \in 1..3 : threat_database[i].timestamp = 0
    /\ threat_database[4].timestamp = 300 * TicksPerSecond - 1
    /\ last.arg = [threat_detected |-> TRUE, threat_type |-> "suspicious_port",
                   confidence |-> 0]
    /\ last.ret.threat_level = 8000

----------------------------------------------------------------------------
(* Recommendations of the ThreatAnalyzer (SpecAnalyzer) *)

CriticalTier == <<"immediate_block", "alert_administrator", "enhance_monitoring">>

ElevatedTier == <<"close_monitoring", "update_firewall_rules">>

\* C17: the recommendations of an execute_rules call are the three critical
\* items if threat_level > 0.8, else the two elevated items if threat_level >
\* 0.5, else nothing, followed by 'rate_limiting' exactly when the threat_type
\* is 'udp_flood'; items of the two tiers never occur together.
C17_RecommendationTiers ==
    AnalyzerCalled =>
        LET level == last.ret.threat_level
            recs == last.ret.recommendations
            flood == "threat_type" \in DOMAIN last.arg
                         /\ last.arg["threat_type"] = "udp_flood"
            tier == IF level > 8000 THEN CriticalTier
                    ELSE IF level > 5000 THEN ElevatedTier ELSE <<>>
        IN /\ recs = tier \o (IF flood THEN <<"rate_limiting">> ELSE <<>>)
           /\ ("rate_limiting" \in Range(recs)) <=> flood
           /\ ~ \E i, j \in DOMAIN recs :
                    /\ recs[i] \in Range(CriticalTier)
                    /\ recs[j] \in Range(ElevatedTier)

\* a threat level of exactly 0.8 (0.6 + 0.2), which stays in the elevated tier
C17_Witness ==
    /\ AnalyzerCalled
    /\ last.ret.threat_level = 8000
    /\ last.ret.recommendations = ElevatedTier

----------------------------------------------------------------------------
(* The deception plan (SpecDeception) *)

FrustrationPair == <<"delay_responses", "provide_false_success">>

ComplexPair == <<"complex_honeypot", "technical_misdirection">>

SimplePair == <<"simple_honeypot", "obvious_breadcrumbs">>

\* the profile a direct execute_rules call has just updated
PlannedProfile ==
    attacker_profiles[IF "attacker_id" \in DOMAIN last.arg
                      THEN last.arg["attacker_id"] ELSE -1]

\* C18: the plan an execute_rules call of the DeceptionDirector returns is
\* determined by the profile it has just updated: its strategy is the complex
\* pair if technical_skill > 0.7 and the simple pair otherwise, preceded by
\* (delay_responses, provide_false_success) exactly when frustration > 0.7, so
\* it has 2 to 4 elements; honeypot_type is 'advanced' exactly when the complex
\* pair is present; emotional_manipulation is 'confusion' whenever the
\* frustration pair is present.
C18_PlanFromProfile ==
    DeceptionCalled =>
        LET profile == PlannedProfile
            plan == last.ret
            frustrated == profile.frustration > 7000
            skilled == profile.technical_skill > 7000
            has(pair) == \E i \in DOMAIN plan.strategy :
                             i < Len(plan.strategy)
                             /\ <<plan.strategy[i], plan.strategy[i + 1]>> = pair
        IN /\ plan.strategy = (IF frustrated THEN FrustrationPair ELSE <<>>)
                                  \o (IF skilled THEN ComplexPair ELSE SimplePair)
           /\ Len(plan.strategy) \in 2..4
           /\ has(ComplexPair) # has(SimplePair)
           /\ has(FrustrationPair) <=> frustrated
           /\ has(FrustrationPair) => plan.strategy[1] = "delay_responses"
           /\ (plan.honeypot_type = "advanced") <=> has(ComplexPair)
           /\ plan.honeypot_type \in {"advanced", "basic"}
           /\ has(FrustrationPair) => plan.emotional_manipulation = "confusion"

\* a frustrated, skilled attacker: four strategies, advanced honeypot
C18_Witness ==
    /\ DeceptionCalled
    /\ PlannedProfile.frustration = 8000
    /\ PlannedProfile.technical_skill = 8000
    /\ last.ret.strategy = FrustrationPair \o ComplexPair
    /\ last.ret.honeypot_type = "advanced"
    /\ last.ret.emotional_manipulation = "confusion"

----------------------------------------------------------------------------
(* Invariants of a run driven only through the coordinator (SpecSwarm) *)

\* C19: when evolve_rules runs only through the coordinator (high-severity
\* dispatches and periodic cycles), between operations every registered agent
\* has the same relationship_time, and it is the number of evolution cycles
\* triggered so far.
C19_RegisteredAgentsInStep ==
    /\ \A a, b \in DOMAIN R :
           (IsRegistered(a) /\ IsRegistered(b))
               => relationship_time[a] = relationship_time[b]
    /\ \A a \in DOMAIN R :
           IsRegistered(a)
               => relationship_time[a] = cycles /\ evolve_calls[a] = cycles

\* one cycle from a high-severity dispatch and one periodic cycle
C19_Witness ==
    /\ AllRegistered
    /\ Len(dispatched) = 1
    /\ last.op = "_trigger_evolution_cycle"
    /\ cycles = 2
    /\ \A a \in DOMAIN R : relationship_time[a] = 2

\* the whole second of the clock reading an event carries
SecondOf(event_data) == event_data.timestamp \div TicksPerSecond

\* C20: with the three agents registered and evaluated only through the
\* coordinator, the shared log, the threat history and the sum of the
\* interaction counts of all profiles each have as many entries as events were
\* dispatched; the profiles are exactly the clock seconds in which an event
\* was dispatched, and each profile counts the events of its second (same
\* second, same profile; different seconds, different profiles).
C20_OneEntryPerDispatch ==
    AllRegistered =>
        /\ Len(shared_knowledge) = Len(dispatched)
        /\ Len(threat_database) = Len(dispatched)
        /\ TotalInteractions = Len(dispatched)
        /\ DOMAIN attacker_profiles = {SecondOf(dispatched[i]) : i \in DOMAIN dispatched}
        /\ \A id \in DOMAIN attacker_profiles :
               attacker_profiles[id].interaction_count =
                   Cardinality({i \in DOMAIN dispatched : SecondOf(dispatched[i]) = id})

\* three dispatches half a second apart: the first two in second 0, the third
\* in second 1
C20_Witness ==
    /\ AllRegistered
    /\ Len(dispatched) = 3
    /\ \A i \in 1..3 : dispatched[i].timestamp = i - 1
    /\ DOMAIN attacker_profiles = {0, 1}
    /\ attacker_profiles[0].interaction_count = 2
    /\ attacker_profiles[1].interaction_count = 1
    /\ Len(threat_database) = 3

====
